---- MODULE Spec2Model ----
(***************************************************************************)
(* Model of src/app.py: the news-article generator.                        *)
(*                                                                         *)
(*   main             validates the three URL inputs, runs scrape_articles *)
(*                    and then generate_article, and shows the record or   *)
(*                    the error.                                           *)
(*   scrape_articles  for each URL in order: fetch_url, extract_content,   *)
(*                    fetch_image for each candidate image.                *)
(*   call_gemini_api  one generative call under tenacity's @retry.         *)
(*   generate_article draft call, parse of TITLE:/ARTICLE:, optional       *)
(*                    title-shortening call, result record.                *)
(*                                                                         *)
(* A text is a sequence of whitespace-separated tokens.  A token is either *)
(* one of the two field markers or a run of n ordinary words.              *)
(***************************************************************************)
EXTENDS Integers, Sequences, FiniteSets, TLC

\* ------------------------------------------------------------------ bounds

\* Longest service response, in tokens.
MaxRespLen == 3
\* Most <img> candidates one page yields before the cap of extract_content.
MaxCandidates == 1

\* --------------------------------------------------------- program constants

\* stop_after_attempt(3)
StopAfterAttempt == 3
\* wait_exponential(multiplier=1, min=4, max=10)
WaitMultiplier == 1
WaitMin == 4
WaitMax == 10
\* time.sleep(5) after a rate-limited failure
CooldownSecs == 5
\* if len(title.split()) > 15
MaxTitleWords == 15
\* images[:3]
ImageLimit == 3
\* st.columns(3)
NumInputs == 3
\* "Độ dài 800-1000 từ": the length the draft prompt asks for
MinWords == 800

\* ------------------------------------------------------------------- texts

TITLE == [mark |-> "TITLE:", n |-> 1]
ARTICLE == [mark |-> "ARTICLE:", n |-> 1]
Run(k) == [mark |-> "", n |-> k]

\* Word runs a response is built from: a title at the limit, a body at the floor.
WordRuns == {MaxTitleWords, MinWords}
Tokens == {TITLE, ARTICLE} \cup {Run(k) : k \in WordRuns}

SeqsUpTo(S, k) == UNION {[1..j -> S] : j \in 0..k}

\* What model.generate_content(prompt).text can be.
Responses == SeqsUpTo(Tokens, MaxRespLen)

\* str.split(sep): the segments between the occurrences of sep.
RECURSIVE Split(_, _)
Split(s, sep) ==
    IF s = <<>> THEN << <<>> >>
    ELSE LET rest == Split(Tail(s), sep)
         IN  IF Head(s) = sep
             THEN << <<>> >> \o rest
             ELSE << <<Head(s)>> \o rest[1] >> \o Tail(rest)

\* len(text.split()): the number of whitespace-separated words.
RECURSIVE WordCount(_)
WordCount(s) == IF s = <<>> THEN 0 ELSE Head(s).n + WordCount(Tail(s))

Min(a, b) == IF a < b THEN a ELSE b
Max(a, b) == IF a > b THEN a ELSE b

RECURSIVE Pow2(_)
Pow2(k) == IF k = 0 THEN 1 ELSE 2 * Pow2(k - 1)

\* tenacity wait_exponential: clamp(multiplier * 2^(attempt-1), min, max).
WaitExponential(attempt_number) ==
    Max(Max(0, WaitMin), Min(WaitMultiplier * Pow2(attempt_number - 1), WaitMax))

\* -------------------------------------------------------------------- URLs

\* What a user can type into one of the URL boxes.
URLS == {"", "http://a", "http://b", "b.example/y"}

\* str.strip()
Strip(u) == IF u \in {"", " "} THEN "" ELSE u

\* urlparse(url).scheme and .netloc
Scheme(u) == IF u \in {"http://a", "http://b"} THEN "http" ELSE ""
Netloc(u) == IF u = "http://a" THEN "a" ELSE IF u = "http://b" THEN "b" ELSE ""

validate_url(u) == Scheme(u) # "" /\ Netloc(u) # ""

NonBlank(u) == Strip(u) # ""

\* ------------------------------------------------------------------- state

VARIABLES
    pc,           \* position of main
    urls,         \* the three text inputs
    valid_urls,   \* main's valid_urls
    spc,          \* position inside scrape_articles
    idx,          \* index in valid_urls of the URL being processed
    articles,     \* scrape_articles' articles
    pending,      \* content['images'] still to fetch for the current URL
    images,       \* images of the current URL
    inflight,     \* fetches issued and not yet completed
    peak,         \* most URL fetches ever in flight together
    sessions,     \* ClientSession objects open now
    acquired,     \* ClientSession objects ever opened
    released,     \* ClientSession objects ever closed
    issued,       \* every fetch ever issued, in order
    failures,     \* where a fetch or an extraction raised, in order
    wouldHave,    \* images a run without swallowed failures would hold
    stage,        \* which generative call is running
    cpc,          \* position inside call_gemini_api under @retry
    attempt,      \* tenacity's attempt_number
    log,          \* what the running call did, in order
    calls,        \* call_gemini_api invocations of the run, in order
    text,         \* the text the latest call_gemini_api returned
    draft,        \* <<r>> once the draft call returned r, <<>> before
    title,        \* generate_article's title
    content,      \* generate_article's content
    record,       \* what generate_article returned
    error         \* the exception raised to the caller: cause chain, outermost first

mainVars == <<urls, valid_urls>>
scrapeVars == <<spc, idx, articles, pending, images, inflight, peak, sessions,
                acquired, released, issued, failures, wouldHave>>
callVars == <<cpc, attempt, log, text>>
genVars == <<stage, calls, draft, title, content, record>>
vars == <<pc, mainVars, scrapeVars, callVars, genVars, error>>

NoRecord == [title |-> <<>>, content |-> <<>>, word_count |-> 0 - 1,
             sources |-> <<>>, images |-> <<>>]

\* ------------------------------------------------------- generate_article

\* result.split('TITLE:')[1].split('ARTICLE:')[0] and result.split('ARTICLE:')[1]
\* raise IndexError unless each marker occurs.
DraftParses(r) == Len(Split(r, TITLE)) >= 2 /\ Len(Split(r, ARTICLE)) >= 2
DraftTitle(r) == Split(Split(r, TITLE)[2], ARTICLE)[1]
DraftContent(r) == Split(r, ARTICLE)[2]

\* Fault variant: a title of exactly the limit is sent for shortening too.
NeedsShortenAtLimit(t) == WordCount(t) >= MaxTitleWords

\* if len(title.split()) > 15
NeedsShorten(t) == WordCount(t) > MaxTitleWords

\* title_result.split('TITLE:')[1]
ShortParses(r) == Len(Split(r, TITLE)) >= 2
ShortTitle(r) == Split(r, TITLE)[2]

RECURSIVE Sources(_)
Sources(arts) ==
    IF arts = <<>> THEN <<>> ELSE <<Head(arts).url>> \o Sources(Tail(arts))

RECURSIVE AllImages(_)
AllImages(arts) ==
    IF arts = <<>> THEN <<>> ELSE Head(arts).images \o AllImages(Tail(arts))

Reverse(s) == [j \in 1..Len(s) |-> s[Len(s) + 1 - j]]

\* Fault variant: the sources are listed last article first.
ResultRecordReversed(t, c, arts) ==
    [title |-> t, content |-> c, word_count |-> WordCount(c),
     sources |-> Reverse(Sources(arts)), images |-> AllImages(arts)]

\* Fault variant: word_count counts the title's words with the body's.
ResultRecordCountsTitle(t, c, arts) ==
    [title |-> t, content |-> c, word_count |-> WordCount(t) + WordCount(c),
     sources |-> Sources(arts), images |-> AllImages(arts)]

\* The dictionary generate_article returns.
ResultRecord(t, c, arts) ==
    [title |-> t, content |-> c, word_count |-> WordCount(c),
     sources |-> Sources(arts), images |-> AllImages(arts)]

\* generate_article returns rec; main shows it (if result: ...).
Finish(t, c) ==
    /\ title' = t
    /\ content' = c
    /\ record' = ResultRecord(t, c, articles)
    /\ pc' = "done"
    /\ stage' = "none"
    /\ cpc' = "idle"
    /\ log' = <<>>
    /\ UNCHANGED <<calls, attempt, error>>

\* generate_article raises; main's except shows the message.
Fail(chain) ==
    /\ error' = chain
    /\ pc' = "error"
    /\ stage' = "none"
    /\ cpc' = "idle"
    /\ log' = <<>>
    /\ UNCHANGED <<calls, attempt, title, content, record>>

\* generate_article after the draft call returned r.
AfterDraft(r) ==
    /\ draft' = <<r>>
    /\ text' = r
    /\ IF ~DraftParses(r)
       THEN Fail(<<"create_article", "process_result", "IndexError">>)
       ELSE IF NeedsShorten(DraftTitle(r))
       THEN /\ title' = DraftTitle(r)
            /\ content' = DraftContent(r)
            /\ stage' = "shorten"
            /\ calls' = Append(calls, "shorten")
            /\ cpc' = "attempt"
            /\ attempt' = 1
            /\ log' = <<>>
            /\ UNCHANGED <<pc, record, error>>
       ELSE Finish(DraftTitle(r), DraftContent(r))

\* generate_article after the shorten call returned r.
AfterShorten(r) ==
    /\ UNCHANGED draft
    /\ text' = r
    /\ IF ~ShortParses(r)
       THEN Fail(<<"create_article", "process_result", "IndexError">>)
       ELSE Finish(ShortTitle(r), content)

\* ------------------------------------------------------- call_gemini_api

Ev(kind, secs) == [ev |-> kind, secs |-> secs, err |-> "", out |-> <<>>]
\* self.model.generate_content(prompt) and what came of it: text r, or error e.
Returned(r) == [ev |-> "invoke", secs |-> 0, err |-> "", out |-> r]
Raised(e) == [ev |-> "invoke", secs |-> 0, err |-> e, out |-> <<>>]

\* "429" in str(e)
IsRateLimited(e) == e = "api429"

\* Fault variant: the rate-limit branch warns but re-raises without pausing.
OnFailureNoCooldown(e) ==
    IF IsRateLimited(e) THEN <<Ev("warning", 0)>> ELSE <<>>

\* The except clause of call_gemini_api: what it does before re-raising e.
OnFailure(e) ==
    IF IsRateLimited(e)
    THEN <<Ev("warning", 0), Ev("cooldown", CooldownSecs)>>
    ELSE <<>>

\* Fault variant: the stop test is off by one, allowing a fourth attempt.
ShouldStopLate(attempt_number) == attempt_number > StopAfterAttempt

\* tenacity stop_after_attempt: stop once attempt_number reaches the limit.
ShouldStop(attempt_number) == attempt_number >= StopAfterAttempt

\* One attempt whose generate_content returns r; the awaiting caller goes on.
AttemptReturns ==
    /\ cpc = "attempt"
    /\ \E r \in Responses :
        CASE stage = "solo" ->
                /\ log' = Append(log, Returned(r))
                /\ text' = r
                /\ cpc' = "returned"
                /\ UNCHANGED <<pc, attempt, error, genVars>>
          [] stage = "draft" -> AfterDraft(r)
          [] stage = "shorten" -> AfterShorten(r)
    /\ UNCHANGED <<mainVars, scrapeVars>>

\* One attempt whose generate_content raises e; tenacity retries or re-raises.
AttemptRaises ==
    /\ cpc = "attempt"
    /\ \E e \in {"api429", "api"} :
        IF ~ShouldStop(attempt)
        THEN /\ log' = Append(log, Raised(e)) \o OnFailure(e)
             /\ cpc' = "backoff"
             /\ UNCHANGED <<pc, attempt, text, error, genVars>>
        ELSE CASE stage = "solo" ->
                    /\ log' = Append(log, Raised(e)) \o OnFailure(e)
                    /\ cpc' = "raised"
                    /\ error' = <<e>>
                    /\ UNCHANGED <<pc, attempt, text, genVars>>
               [] stage = "draft" ->
                    /\ Fail(<<"create_article", e>>)
                    /\ UNCHANGED <<draft, text>>
               [] stage = "shorten" ->
                    /\ Fail(<<"create_article", "process_result", e>>)
                    /\ UNCHANGED <<draft, text>>
    /\ UNCHANGED <<mainVars, scrapeVars>>

\* tenacity sleeps wait_exponential(attempt_number) and starts the next attempt.
BackoffWait ==
    /\ cpc = "backoff"
    /\ log' = Append(log, Ev("backoff", WaitExponential(attempt)))
    /\ attempt' = attempt + 1
    /\ cpc' = "attempt"
    /\ UNCHANGED <<pc, text, error, mainVars, scrapeVars, genVars>>

\* --------------------------------------------------------- scrape_articles

UrlFetch(i) == [kind |-> "url", i |-> i, k |-> 0]
ImgFetch(i, k) == [kind |-> "img", i |-> i, k |-> k]

UrlFetches(S) == {f \in S : f.kind = "url"}

\* async with aiohttp.ClientSession(...) as session: enter.
OpenSession ==
    /\ sessions' = sessions + 1
    /\ acquired' = acquired + 1
    /\ UNCHANGED released

\* async with aiohttp.ClientSession(...) as session: exit, normal or not.
CloseSession ==
    /\ sessions' = sessions - 1
    /\ released' = released + 1
    /\ UNCHANGED acquired

\* for url in urls: if url.strip(): the next index at or after i to process.
RECURSIVE NextUrl(_, _)
NextUrl(us, i) ==
    IF i > Len(us) THEN i
    ELSE IF NonBlank(us[i]) THEN i ELSE NextUrl(us, i + 1)

\* content['images']: the first ImageLimit of the n <img> tags of page i.
Candidates(i, n) == [k \in 1..Min(n, ImageLimit) |-> ImgFetch(i, k)]

\* generate_article(articles) starts: it reaches its first call_gemini_api.
StartGenerate ==
    /\ pc' = "generate"
    /\ stage' = "draft"
    /\ calls' = <<"draft">>
    /\ cpc' = "attempt"
    /\ attempt' = 1
    /\ UNCHANGED <<log, text, draft, title, content, record, error>>

\* articles.append({...}) for URL idx with images imgs, then the loop goes on;
\* after the last URL scrape_articles returns and main goes on.
AppendArticle(imgs) ==
    LET arts == Append(articles, [url |-> valid_urls[idx], images |-> imgs])
        nxt == NextUrl(valid_urls, idx + 1)
    IN  /\ articles' = arts
        /\ idx' = nxt
        /\ pending' = <<>>
        /\ images' = <<>>
        /\ IF nxt <= Len(valid_urls)
           THEN /\ spc' = "loop"
                /\ UNCHANGED <<pc, callVars, genVars, error>>
           ELSE /\ spc' = "returned"
                /\ IF arts = <<>>
                   THEN /\ pc' = "empty"
                        /\ UNCHANGED <<callVars, genVars, error>>
                   ELSE StartGenerate

\* The await of line 127: the loop issues a fetch only when none is running.
FetchReady == spc = "loop" /\ inflight = {}

\* Fault variant: the fetches of all remaining URLs are issued together.
FetchUrlStartAll ==
    LET batch == {UrlFetch(j) : j \in idx..Len(valid_urls)}
    IN  /\ pc = "scrape"
        /\ idx <= Len(valid_urls)
        /\ FetchReady
        /\ sessions' = sessions + Cardinality(batch)
        /\ acquired' = acquired + Cardinality(batch)
        /\ UNCHANGED released
        /\ inflight' = inflight \cup batch
        /\ peak' = Max(peak, Cardinality(UrlFetches(inflight \cup batch)))
        /\ issued' = issued \o [j \in 1..Cardinality(batch) |-> UrlFetch(idx + j - 1)]
        /\ spc' = "fetching"
        /\ UNCHANGED <<pc, idx, articles, pending, images, failures, wouldHave>>
        /\ UNCHANGED <<mainVars, callVars, genVars, error>>

\* html = await self.fetch_url(url): the session opens and the GET is sent.
FetchUrlStart ==
    /\ pc = "scrape"
    /\ idx <= Len(valid_urls)
    /\ FetchReady
    /\ OpenSession
    /\ inflight' = inflight \cup {UrlFetch(idx)}
    /\ peak' = Max(peak, Cardinality(UrlFetches(inflight \cup {UrlFetch(idx)})))
    /\ issued' = Append(issued, UrlFetch(idx))
    /\ spc' = "fetching"
    /\ UNCHANGED <<pc, idx, articles, pending, images, failures, wouldHave>>
    /\ UNCHANGED <<mainVars, callVars, genVars, error>>

\* fetch_url returns the page; extract_content runs on it.
FetchUrlReturns ==
    /\ pc = "scrape"
    /\ spc = "fetching"
    /\ UrlFetch(idx) \in inflight
    /\ CloseSession
    /\ inflight' = inflight \ {UrlFetch(idx)}
    /\ UNCHANGED <<peak, issued, failures, wouldHave, mainVars>>
    /\ \E n \in 0..MaxCandidates :
        IF Candidates(idx, n) = <<>>
        THEN AppendArticle(<<>>)
        ELSE /\ pending' = Candidates(idx, n)
             /\ images' = <<>>
             /\ spc' = "images"
             /\ UNCHANGED <<pc, idx, articles, callVars, genVars, error>>

\* extract_content raises on the fetched page: "Lỗi khi xử lý HTML".
ExtractRaises ==
    /\ pc = "scrape"
    /\ spc = "fetching"
    /\ UrlFetch(idx) \in inflight
    /\ CloseSession
    /\ inflight' = inflight \ {UrlFetch(idx)}
    /\ error' = <<"process_html", "parse">>
    /\ failures' = Append(failures, "extract_content")
    /\ pc' = "error"
    /\ spc' = "raised"
    /\ UNCHANGED <<idx, articles, pending, images, peak, issued, wouldHave, mainVars, callVars, genVars>>

\* Fault variant: a failed URL is dropped and the loop goes on to the next.
FetchUrlRaisesTolerated ==
    LET nxt == NextUrl(valid_urls, idx + 1)
    IN  /\ pc = "scrape"
        /\ spc = "fetching"
        /\ UrlFetch(idx) \in inflight
        /\ CloseSession
        /\ inflight' = inflight \ {UrlFetch(idx)}
        /\ failures' = Append(failures, "fetch_url")
        /\ idx' = nxt
        /\ UNCHANGED <<articles, pending, images, peak, issued, wouldHave, mainVars>>
        /\ IF nxt <= Len(valid_urls)
           THEN /\ spc' = "loop"
                /\ UNCHANGED <<pc, callVars, genVars, error>>
           ELSE /\ spc' = "returned"
                /\ IF articles = <<>>
                   THEN /\ pc' = "empty"
                        /\ UNCHANGED <<callVars, genVars, error>>
                   ELSE StartGenerate

\* Fault variant: the session is not closed when the GET raises.
FetchUrlRaisesLeaks ==
    /\ pc = "scrape"
    /\ spc = "fetching"
    /\ UrlFetch(idx) \in inflight
    /\ UNCHANGED <<sessions, acquired, released>>
    /\ inflight' = inflight \ {UrlFetch(idx)}
    /\ error' = <<"read_url", "network">>
    /\ failures' = Append(failures, "fetch_url")
    /\ pc' = "error"
    /\ spc' = "raised"
    /\ UNCHANGED <<idx, articles, pending, images, peak, issued,
                   wouldHave, mainVars, callVars, genVars>>

\* fetch_url raises: "Lỗi khi đọc URL"; nothing in scrape_articles catches it.
FetchUrlRaises ==
    /\ pc = "scrape"
    /\ spc = "fetching"
    /\ UrlFetch(idx) \in inflight
    /\ CloseSession
    /\ inflight' = inflight \ {UrlFetch(idx)}
    /\ error' = <<"read_url", "network">>
    /\ failures' = Append(failures, "fetch_url")
    /\ pc' = "error"
    /\ spc' = "raised"
    /\ UNCHANGED <<idx, articles, pending, images, peak, issued, wouldHave, mainVars, callVars, genVars>>

\* img_data = await self.fetch_image(img['url']): session opens, GET is sent.
FetchImageStart ==
    /\ pc = "scrape"
    /\ spc = "images"
    /\ pending # <<>>
    /\ inflight = {}
    /\ OpenSession
    /\ inflight' = {Head(pending)}
    /\ issued' = Append(issued, Head(pending))
    /\ spc' = "imgfetching"
    /\ UNCHANGED <<pc, idx, articles, pending, images, peak, failures, wouldHave>>
    /\ UNCHANGED <<mainVars, callVars, genVars, error>>

\* fetch_image's result: the bytes on status 200, None on another status,
\* None on any exception (except: return None).
ImageData(outcome) == IF outcome = "200" THEN "data" ELSE "None"

\* fetch_image is over; if img_data: images.append(...).
FetchImageDone ==
    /\ pc = "scrape"
    /\ spc = "imgfetching"
    /\ CloseSession
    /\ inflight' = {}
    /\ UNCHANGED <<peak, issued, mainVars>>
    /\ \E outcome \in {"200", "other", "raise"} :
        LET img == Head(pending)
            imgs == IF ImageData(outcome) # "None" THEN Append(images, img) ELSE images
        IN  /\ failures' = IF outcome = "raise"
                           THEN Append(failures, "fetch_image") ELSE failures
            /\ wouldHave' = IF outcome = "other" THEN wouldHave
                            ELSE Append(wouldHave, img)
            /\ IF Tail(pending) = <<>>
               THEN AppendArticle(imgs)
               ELSE /\ pending' = Tail(pending)
                    /\ images' = imgs
                    /\ spc' = "images"
                    /\ UNCHANGED <<pc, idx, articles, callVars, genVars, error>>

\* -------------------------------------------------------------------- main

\* The button handler up to asyncio.run(scrape_articles(valid_urls)).
Submit ==
    /\ pc = "form"
    /\ LET v == SelectSeq(urls, NonBlank)
       IN  /\ valid_urls' = v
           /\ IF Len(v) = 0
              THEN /\ pc' = "warned"
                   /\ UNCHANGED <<spc, idx>>
              ELSE IF \E j \in 1..Len(v) : ~validate_url(v[j])
              THEN /\ pc' = "invalid"
                   /\ UNCHANGED <<spc, idx>>
              ELSE /\ pc' = "scrape"
                   /\ spc' = "loop"
                   /\ idx' = NextUrl(v, 1)
    /\ UNCHANGED <<urls, articles, pending, images, inflight, peak, sessions,
                   acquired, released, issued, failures, wouldHave>>
    /\ UNCHANGED <<callVars, genVars, error>>

\* ---------------------------------------------------------- specifications

Blank ==
    /\ valid_urls = <<>>
    /\ spc = "idle"
    /\ idx = 0
    /\ pending = <<>>
    /\ images = <<>>
    /\ inflight = {}
    /\ peak = 0
    /\ sessions = 0
    /\ acquired = 0
    /\ released = 0
    /\ issued = <<>>
    /\ failures = <<>>
    /\ wouldHave = <<>>
    /\ log = <<>>
    /\ text = <<>>
    /\ draft = <<>>
    /\ title = <<>>
    /\ content = <<>>
    /\ record = NoRecord
    /\ error = <<>>

\* main: the form is filled in and the button is about to be pressed.
Init ==
    /\ Blank
    /\ pc = "form"
    /\ urls \in [1..NumInputs -> URLS]
    /\ articles = <<>>
    /\ stage = "none"
    /\ cpc = "idle"
    /\ attempt = 0
    /\ calls = <<>>

Next ==
    \/ Submit
    \/ FetchUrlStart
    \/ FetchUrlReturns
    \/ ExtractRaises
    \/ FetchUrlRaises
    \/ FetchImageStart
    \/ FetchImageDone
    \/ AttemptReturns
    \/ AttemptRaises
    \/ BackoffWait

Spec == Init /\ [][Next]_vars

\* call_gemini_api alone, awaited by a caller that only takes its result.
InitCall ==
    /\ Blank
    /\ pc = "call"
    /\ urls = <<>>
    /\ articles = <<>>
    /\ stage = "solo"
    /\ cpc = "attempt"
    /\ attempt = 1
    /\ calls = <<"solo">>

NextCall ==
    \/ AttemptReturns
    \/ AttemptRaises
    \/ BackoffWait

SpecCall == InitCall /\ [][NextCall]_vars

\* main up to the moment generate_article reaches its first generative call.
NextScrape ==
    \/ Submit
    \/ FetchUrlStart
    \/ FetchUrlReturns
    \/ ExtractRaises
    \/ FetchUrlRaises
    \/ FetchImageStart
    \/ FetchImageDone

SpecScrape == Init /\ [][NextScrape]_vars

\* generate_article alone, on the articles of one to NumInputs valid URLs.
ValidUrls == {u \in URLS : NonBlank(u) /\ validate_url(u)}
ScrapedFrom(us) == [j \in 1..Len(us) |-> [url |-> us[j], images |-> <<>>]]

InitGen ==
    /\ Blank
    /\ pc = "generate"
    /\ urls = <<>>
    /\ \E us \in SeqsUpTo(ValidUrls, NumInputs) :
        /\ us # <<>>
        /\ articles = ScrapedFrom(us)
    /\ stage = "draft"
    /\ cpc = "attempt"
    /\ attempt = 1
    /\ calls = <<"draft">>

SpecGen == InitGen /\ [][NextCall]_vars

\* ------------------------------------------------------------------ claims

Count(s, kind) == Cardinality({j \in 1..Len(s) : s[j].ev = kind})
Invocations == {j \in 1..Len(log) : log[j].ev = "invoke"}
LastInvoke == log[CHOOSE j \in Invocations : \A m \in Invocations : m <= j]
NumOf(s, x) == Cardinality({j \in 1..Len(s) : s[j] = x})

\* C1: call_gemini_api invokes the service at most 3 times.  When the first
\* two attempts fail and the third succeeds it returns the third attempt's
\* text after exactly 2 backoff waits; when every attempt fails it raises the
\* last failure after exactly 3 invocations.
C1_RetryBudget ==
    /\ Count(log, "invoke") <= StopAfterAttempt
    /\ cpc \in {"attempt", "backoff"} => Count(log, "invoke") = attempt - 1 + (IF cpc = "backoff" THEN 1 ELSE 0)
    /\ cpc = "returned" =>
        /\ Count(log, "invoke") = attempt
        /\ Count(log, "backoff") = attempt - 1
        /\ LastInvoke.err = ""
        /\ text = LastInvoke.out
        /\ \A j \in Invocations : log[j] # LastInvoke => log[j].err # ""
    /\ cpc = "raised" =>
        /\ Count(log, "invoke") = StopAfterAttempt
        /\ Count(log, "backoff") = StopAfterAttempt - 1
        /\ \A j \in Invocations : log[j].err # ""
        /\ error = <<LastInvoke.err>>

\* Two failed attempts, then the third attempt's text is returned.
C1_Witness ==
    /\ cpc = "returned"
    /\ attempt = 3
    /\ Count(log, "backoff") = 2
    /\ text # <<>>

\* C2: every rate-limited failure is followed, in this order, by the wait
\* notice, the fixed cooldown and then the retry (a backoff wait and the next
\* invocation), unless the 3-attempt budget is used up, in which case the call
\* raises; rate-limited attempts count against the same budget.
C2_RateLimitCooldown ==
    /\ Count(log, "invoke") <= StopAfterAttempt
    /\ \A j \in 1..Len(log) :
        (log[j].ev = "invoke" /\ log[j].err = "api429") =>
            /\ j + 2 <= Len(log)
            /\ log[j + 1].ev = "warning"
            /\ log[j + 2].ev = "cooldown"
            /\ log[j + 2].secs = CooldownSecs
            /\ IF j + 2 = Len(log)
               THEN \/ cpc = "backoff"
                    \/ cpc = "raised" /\ Count(log, "invoke") = StopAfterAttempt
               ELSE /\ log[j + 3].ev = "backoff"
                    /\ IF j + 3 = Len(log)
                       THEN cpc = "attempt"
                       ELSE log[j + 4].ev = "invoke"
    /\ \A j \in 1..Len(log) :
        log[j].ev = "cooldown" =>
            /\ j >= 3
            /\ log[j - 1].ev = "warning"
            /\ log[j - 2].ev = "invoke"
            /\ log[j - 2].err = "api429"

\* A rate-limited failure, its notice and cooldown, and the retry after it.
C2_Witness ==
    \E j \in 1..Len(log) :
        /\ log[j].ev = "invoke"
        /\ log[j].err = "api429"
        /\ j + 4 <= Len(log)
        /\ log[j + 2].ev = "cooldown"
        /\ log[j + 4].ev = "invoke"

ScrapeOver == spc \in {"returned", "raised"}

UrlFailed == \E j \in 1..Len(failures) : failures[j] \in {"fetch_url", "extract_content"}

\* C4: when the fetch or the extraction of a URL fails, scrape_articles raises
\* and returns no list, no later URL is fetched, and no generative call is
\* issued for the run.
C4_FailFast ==
    UrlFailed =>
        /\ pc = "error"
        /\ spc = "raised"
        /\ error # <<>>
        /\ calls = <<>>
        /\ stage = "none"
        /\ record = NoRecord
        /\ inflight = {}
        /\ Len(articles) = idx - 1
        /\ \A j \in 1..Len(issued) : issued[j].i <= idx
        /\ ~ENABLED FetchUrlStart
        /\ ~ENABLED FetchImageStart

\* The second of three URLs failed: the third is never fetched.
C4_Witness ==
    /\ UrlFailed
    /\ Len(valid_urls) = 3
    /\ idx = 2
    /\ Len(articles) = 1

\* C5: when every fetch of a request of 1 to 3 valid URLs succeeds and the
\* article is generated, the record's sources are the submitted non-blank
\* URLs, in the submitted order.
C5_SourcesPreserved ==
    pc = "done" =>
        /\ record.sources = SelectSeq(urls, NonBlank)
        /\ Len(record.sources) \in 1..NumInputs

\* A finished run on two different URLs around a blank box.
C5_Witness ==
    /\ pc = "done"
    /\ urls = <<"http://b", "", "http://a">>
    /\ record.sources = <<"http://b", "http://a">>

DraftBack == draft # <<>>
TheDraft == draft[1]
\* The number of words of the draft's title field, counted on the text itself:
\* the words after the first TITLE: up to the next marker.
RECURSIVE TakeUntil(_, _)
TakeUntil(s, stops) ==
    IF s = <<>> \/ Head(s) \in stops THEN <<>>
    ELSE <<Head(s)>> \o TakeUntil(Tail(s), stops)
RECURSIVE After(_, _)
After(s, m) == IF s = <<>> THEN <<>> ELSE IF Head(s) = m THEN Tail(s) ELSE After(Tail(s), m)
Has(s, m) == \E j \in 1..Len(s) : s[j] = m
TitleWords(r) == WordCount(TakeUntil(After(r, TITLE), {TITLE, ARTICLE}))

\* C6: a draft title of at most 15 words is never resubmitted; a longer one
\* triggers exactly one shorten call, whose result replaces the title without
\* a re-check, so no run issues more than one shorten call.
C6_TitlePolicy ==
    /\ NumOf(calls, "shorten") <= 1
    /\ NumOf(calls, "shorten") = 1 =>
        /\ DraftBack
        /\ TitleWords(TheDraft) > MaxTitleWords
    /\ (DraftBack /\ Has(TheDraft, TITLE) /\ Has(TheDraft, ARTICLE)
            /\ TitleWords(TheDraft) > MaxTitleWords) =>
        NumOf(calls, "shorten") = 1
    /\ (pc = "done" /\ NumOf(calls, "shorten") = 1) =>
        /\ record.title = TakeUntil(After(text, TITLE), {TITLE})
        /\ Has(text, TITLE)
    /\ (pc = "done" /\ NumOf(calls, "shorten") = 0) =>
        WordCount(record.title) <= MaxTitleWords

\* A shortened title that is still too long is the final title.
C6_Witness ==
    /\ pc = "done"
    /\ calls = <<"draft", "shorten">>
    /\ WordCount(record.title) > MaxTitleWords

FirstIndex(s, m) == CHOOSE j \in 1..Len(s) : s[j] = m /\ \A k \in 1..(j - 1) : s[k] # m
\* A marker is missing, or ARTICLE: comes before TITLE:.
Malformed(r) ==
    \/ ~Has(r, TITLE)
    \/ ~Has(r, ARTICLE)
    \/ FirstIndex(r, ARTICLE) < FirstIndex(r, TITLE)

FormatError == <<"create_article", "process_result", "IndexError">>

\* C7: a draft response that lacks TITLE: or ARTICLE:, or has them out of the
\* declared order, ends the run with a format error that differs from every
\* generation failure, with no record and no later generative call.
C7_MalformedDraftFails ==
    (DraftBack /\ Malformed(TheDraft)) =>
        /\ pc = "error"
        /\ error = FormatError
        /\ record = NoRecord
        /\ calls = <<"draft">>

C10_NoSwallowedFailure ==
    /\ pc = "error" => record = NoRecord /\ error # <<>>
    /\ (pc = "done" /\ failures # <<>>) => record.images = wouldHave

====
